---------------------------- MODULE Spec2Model ----------------------------
(***************************************************************************)
(* Model of the git_report tool (src/git_report): repository discovery,    *)
(* commit extraction, period keys, aggregation, export and plotting.       *)
(*                                                                         *)
(* Strings the program builds or parses are sequences of one-character     *)
(* strings, so that formatting, parsing and lexicographic sorting are      *)
(* computed and not assumed.  Dates are records [year, month, day], the    *)
(* fields of a datetime at midnight.                                       *)
(***************************************************************************)
EXTENDS Integers, Sequences, FiniteSets, TLC

(***************************************************************************)
(* Characters and strings                                                  *)
(***************************************************************************)
Digits == <<"0", "1", "2", "3", "4", "5", "6", "7", "8", "9">>

\* Code point of the characters that occur in period keys.
Ord(c) ==
  CASE c = "-" -> 45
    [] c = "0" -> 48 [] c = "1" -> 49 [] c = "2" -> 50 [] c = "3" -> 51
    [] c = "4" -> 52 [] c = "5" -> 53 [] c = "6" -> 54 [] c = "7" -> 55
    [] c = "8" -> 56 [] c = "9" -> 57
    [] c = "W" -> 87
    [] c = "a" -> 97 [] c = "b" -> 98

\* Python's str < str: the first differing character decides, a proper
\* prefix is smaller.
RECURSIVE StrLess(_, _)
StrLess(s, t) ==
  IF t = << >> THEN FALSE
  ELSE IF s = << >> THEN TRUE
  ELSE IF Head(s) = Head(t) THEN StrLess(Tail(s), Tail(t))
  ELSE Ord(Head(s)) < Ord(Head(t))

StrLeq(s, t) == s = t \/ StrLess(s, t)

\* str(n) for n >= 0: decimal digits without padding.
RECURSIVE DecStr(_)
DecStr(n) ==
  IF n < 10 THEN <<Digits[n + 1]>>
  ELSE DecStr(n \div 10) \o <<Digits[(n % 10) + 1]>>

\* format(n, "0{w}d"): left-padded with zeros to at least w characters.
\* No padding at all.
NoPad(s, w) == s

RECURSIVE ZeroPad(_, _)
ZeroPad(s, w) == IF Len(s) >= w THEN s ELSE ZeroPad(<<"0">> \o s, w)

(***************************************************************************)
(* Calendar arithmetic of datetime (proleptic Gregorian ordinals)          *)
(***************************************************************************)
IsLeap(y) == (y % 4 = 0) /\ ((y % 100 # 0) \/ (y % 400 = 0))

DaysInMonth(y, m) ==
  IF m = 2 THEN (IF IsLeap(y) THEN 29 ELSE 28)
  ELSE IF m \in {4, 6, 9, 11} THEN 30 ELSE 31

DaysBeforeYear(y) ==
  LET p == y - 1 IN p * 365 + (p \div 4) - (p \div 100) + (p \div 400)

RECURSIVE DaysBeforeMonth(_, _)
DaysBeforeMonth(y, m) ==
  IF m = 1 THEN 0 ELSE DaysBeforeMonth(y, m - 1) + DaysInMonth(y, m - 1)

\* date.toordinal(): 0001-01-01 is day 1.
ToOrdinal(dt) == DaysBeforeYear(dt.year) + DaysBeforeMonth(dt.year, dt.month) + dt.day

\* The year of ordinal n, by 400-, 100-, 4- and 1-year cycles (datetime._ord2ymd).
YearOfOrdinal(n) ==
  LET n0 == n - 1
      n400 == n0 \div 146097
      r400 == n0 % 146097
      n100 == r400 \div 36524
      r100 == r400 % 36524
      n4 == r100 \div 1461
      r4 == r100 % 1461
      n1 == r4 \div 365
      y == n400 * 400 + 1 + n100 * 100 + n4 * 4 + n1
  IN  IF n1 = 4 \/ n100 = 4 THEN y - 1 ELSE y

\* date.fromordinal(n)
FromOrdinal(n) ==
  LET y == YearOfOrdinal(n)
      doy == n - DaysBeforeYear(y)
      m == CHOOSE k \in 1 .. 12 :
             DaysBeforeMonth(y, k) < doy /\ doy <= DaysBeforeMonth(y, k) + DaysInMonth(y, k)
  IN  [year |-> y, month |-> m, day |-> doy - DaysBeforeMonth(y, m)]

\* datetime + timedelta(days = n)
AddDays(dt, n) == FromOrdinal(ToOrdinal(dt) + n)

\* A month step of thirty days.
AddThirtyDays(dt, n) == AddDays(dt, 30 * n)

\* datetime + relativedelta(months = n), n >= 0: calendar months, the day
\* clamped to the last day of the target month.
AddMonths(dt, n) ==
  LET t == (dt.month - 1) + n
      y == dt.year + (t \div 12)
      m == (t % 12) + 1
      last == DaysInMonth(y, m)
  IN  [year |-> y, month |-> m, day |-> IF dt.day > last THEN last ELSE dt.day]

\* datetime <= datetime
DateLeq(a, b) == ToOrdinal(a) <= ToOrdinal(b)

\* The Monday that starts ISO week 1 of a year (datetime._isoweek1monday).
IsoWeek1Monday(y) ==
  LET firstday == DaysBeforeYear(y) + 1
      firstweekday == (firstday + 6) % 7
      week1monday == firstday - firstweekday
  IN  IF firstweekday > 3 THEN week1monday + 7 ELSE week1monday

\* date.isocalendar(): (ISO year, ISO week, ISO weekday).
IsoCalendar(dt) ==
  LET today == ToOrdinal(dt)
      w1 == IsoWeek1Monday(dt.year)
  IN  IF today < w1
      THEN LET p == IsoWeek1Monday(dt.year - 1)
           IN  [year |-> dt.year - 1, week |-> ((today - p) \div 7) + 1,
                weekday |-> ((today - p) % 7) + 1]
      ELSE IF (today - w1) \div 7 >= 52 /\ today >= IsoWeek1Monday(dt.year + 1)
      THEN [year |-> dt.year + 1, week |-> 1, weekday |-> ((today - w1) % 7) + 1]
      ELSE [year |-> dt.year, week |-> ((today - w1) \div 7) + 1,
            weekday |-> ((today - w1) % 7) + 1]

(***************************************************************************)
(* Period keys                                                             *)
(***************************************************************************)
\* The date argument None.
NoDate == [year |-> 0, month |-> 0, day |-> 0]

\* The members of the Period / PeriodType enumeration.
Periods == {"DAY", "WEEK", "MONTH"}

\* A call's outcome: a returned value or a raised exception.
Returned(v) == [exc |-> "none", val |-> v]
Raised(e) == [exc |-> e, val |-> << >>]

\* date.strftime("%Y-%m-%d")
StrfDay(dt) ==
  ZeroPad(DecStr(dt.year), 4) \o <<"-">> \o ZeroPad(DecStr(dt.month), 2)
    \o <<"-">> \o ZeroPad(DecStr(dt.day), 2)

\* date.strftime("%Y-%m")
StrfMonth(dt) == ZeroPad(DecStr(dt.year), 4) \o <<"-">> \o ZeroPad(DecStr(dt.month), 2)

\* A week key by naive division: the calendar year and the count of whole
\* weeks since 1 January.
FmtWeekNaive(dt) ==
  DecStr(dt.year) \o <<"-", "W">>
    \o ZeroPad(DecStr(((ToOrdinal(dt) - DaysBeforeYear(dt.year) - 1) \div 7) + 1), 2)

\* f"{date.isocalendar().year}-W{date.isocalendar().week:02d}"
FmtWeek(dt) ==
  DecStr(IsoCalendar(dt).year) \o <<"-", "W">> \o ZeroPad(DecStr(IsoCalendar(dt).week), 2)


\* git_report.py's copy of format_period: no check of the date, so a None
\* date fails at the first attribute access (date.strftime, date.isocalendar).
gr_format_period(date, period) ==
  IF period = "DAY"
    THEN (IF date = NoDate THEN Raised("AttributeError") ELSE Returned(StrfDay(date)))
  ELSE IF period = "WEEK"
    THEN (IF date = NoDate THEN Raised("AttributeError") ELSE Returned(FmtWeek(date)))
  ELSE IF period = "MONTH"
    THEN (IF date = NoDate THEN Raised("AttributeError") ELSE Returned(StrfMonth(date)))
  ELSE Raised("ValueError")

\* plotters.py's format_period.
format_period(date, period) ==
  IF date = NoDate THEN Raised("ValueError")
  ELSE IF period = "DAY" THEN Returned(StrfDay(date))
  ELSE IF period = "WEEK" THEN Returned(FmtWeek(date))
  ELSE IF period = "MONTH" THEN Returned(StrfMonth(date))
  ELSE Raised("ValueError")

\* The two implementations, by module.
FormatPeriodOf(impl, date, period) ==
  IF impl = "plotters" THEN format_period(date, period) ELSE gr_format_period(date, period)

IsDigit(c) == c \in {Digits[i] : i \in 1 .. 10}

DigitVal(c) == (CHOOSE i \in 1 .. 10 : Digits[i] = c) - 1

\* int(s) of a non-empty string of digits.
RECURSIVE DigitsVal(_)
DigitsVal(s) ==
  IF Len(s) = 1 THEN DigitVal(s[1])
  ELSE DigitsVal(SubSeq(s, 1, Len(s) - 1)) * 10 + DigitVal(s[Len(s)])

AllDigits(s) == Len(s) > 0 /\ \A i \in 1 .. Len(s) : IsDigit(s[i])

\* s.split(sep), sep one character.
RECURSIVE SplitAll(_, _)
SplitAll(s, sep) ==
  IF \A i \in 1 .. Len(s) : s[i] # sep THEN <<s>>
  ELSE LET k == CHOOSE i \in 1 .. Len(s) :
                  s[i] = sep /\ \A j \in 1 .. i - 1 : s[j] # sep
       IN  <<SubSeq(s, 1, k - 1)>> \o SplitAll(SubSeq(s, k + 1, Len(s)), sep)

\* datetime.strptime(s, "%Y-%m-%d"): %Y is four digits, %m is 1..12 and %d
\* is 1..31 in one or two digits, the whole string must match, and the day
\* must exist in the month.
Strptime(s) ==
  LET parts == SplitAll(s, "-")
  IN  IF Len(parts) # 3 THEN Raised("ValueError")
      ELSE LET ys == parts[1]
               ms == parts[2]
               ds == parts[3]
           IN  IF ~(AllDigits(ys) /\ Len(ys) = 4 /\ AllDigits(ms) /\ Len(ms) <= 2
                    /\ AllDigits(ds) /\ Len(ds) <= 2)
               THEN Raised("ValueError")
               ELSE LET y == DigitsVal(ys)
                        m == DigitsVal(ms)
                        d == DigitsVal(ds)
                    IN  IF y >= 1 /\ m \in 1 .. 12 /\ d >= 1 /\ d <= DaysInMonth(y, m)
                        THEN Returned([year |-> y, month |-> m, day |-> d])
                        ELSE Raised("ValueError")

\* plotters.make_period_key and git_report.make_period_key.
make_period_key(commit, period) ==
  LET dt == Strptime(commit.date)
  IN  IF dt.exc # "none" THEN dt ELSE format_period(dt.val, period)

\* git_report.make_period_key, over git_report.py's format_period.
gr_make_period_key(commit, period) ==
  LET dt == Strptime(commit.date)
  IN  IF dt.exc # "none" THEN dt ELSE gr_format_period(dt.val, period)

(***************************************************************************)
(* Dictionaries: sequences of <<key, value>> in insertion order, keys      *)
(* unique                                                                  *)
(***************************************************************************)
DictKeys(d) == {d[i][1] : i \in 1 .. Len(d)}

DictHas(d, k) == \E i \in 1 .. Len(d) : d[i][1] = k

DictGet(d, k) == d[CHOOSE i \in 1 .. Len(d) : d[i][1] = k][2]

\* d[k] = v: a present key keeps its place, a new key goes last.
DictSet(d, k, v) ==
  IF DictHas(d, k)
  THEN [i \in 1 .. Len(d) |-> IF d[i][1] = k THEN <<k, v>> ELSE d[i]]
  ELSE Append(d, <<k, v>>)

\* defaultdict(int)[k] += 1
DictIncr(d, k) == DictSet(d, k, (IF DictHas(d, k) THEN DictGet(d, k) ELSE 0) + 1)

\* One insertion of sorted(): before the first entry with a greater key.
SortedInsert(sorted, e) ==
  LET n == Cardinality({i \in 1 .. Len(sorted) : StrLeq(sorted[i][1], e[1])})
  IN  SubSeq(sorted, 1, n) \o <<e>> \o SubSeq(sorted, n + 1, Len(sorted))

\* sorted(d.items()): ascending by key string (keys are unique).
RECURSIVE SortItems(_)
SortItems(d) ==
  IF d = << >> THEN << >>
  ELSE SortedInsert(SortItems(SubSeq(d, 1, Len(d) - 1)), d[Len(d)])

(***************************************************************************)
(* Aggregation                                                             *)
(***************************************************************************)
\* The counting loop of aggregate_by_period from commit i on; an exception
\* of make_period_key ends it.
RECURSIVE CountFrom(_, _, _, _)
CountFrom(commits, period, i, counts) ==
  IF i > Len(commits) THEN Returned(counts)
  ELSE LET key == gr_make_period_key(commits[i], period)
       IN  IF key.exc # "none" THEN key
           ELSE CountFrom(commits, period, i + 1, DictIncr(counts, key.val))

\* aggregate_by_period without the final sort: entries in insertion order.
aggregate_unsorted(commits, period) == CountFrom(commits, period, 1, << >>)

\* aggregate_by_period(commits, period)
aggregate_by_period(commits, period) ==
  LET counts == CountFrom(commits, period, 1, << >>)
  IN  IF counts.exc # "none" THEN counts ELSE Returned(SortItems(counts.val))

\* A cursor step whose month step sets the month instead of adding months.
StepDateSetMonth(current, step, interval) ==
  IF step = "DAY" THEN AddDays(current, interval)
  ELSE IF step = "WEEK" THEN AddDays(current, 7 * interval)
  ELSE [current EXCEPT !.month = interval]

\* The cursor of generate_dates after one step of the period.
StepDate(current, step, interval) ==
  IF step = "DAY" THEN AddDays(current, interval)
  ELSE IF step = "WEEK" THEN AddDays(current, 7 * interval)
  ELSE AddMonths(current, interval)

(***************************************************************************)
(* The stacked chart of plot_commits                                       *)
(***************************************************************************)
\* A fill step that replaces the per-repository mapping of the key.
FillCommitOverwrite(data, key, repo) == DictSet(data, key, DictIncr(<< >>, repo))

\* data[key][commit.repo_name] += 1 on the nested defaultdict: a missing
\* key gets an empty per-repository mapping first.
FillCommit(data, key, repo) ==
  DictSet(data, key, DictIncr(IF DictHas(data, key) THEN DictGet(data, key) ELSE << >>, repo))

\* sorted(data.keys())
SortedKeys(d) == LET items == SortItems(d) IN [i \in 1 .. Len(items) |-> items[i][1]]

\* sorted(repos) of a set of strings
RECURSIVE SortedSet(_)
SortedSet(S) ==
  IF S = {} THEN << >>
  ELSE LET least == CHOOSE x \in S : \A y \in S : StrLeq(x, y)
       IN  <<least>> \o SortedSet(S \ {least})

\* [data[period].get(repo, 0) for period in periods]
Heights(data, periods, repo) ==
  [i \in 1 .. Len(periods) |->
     LET counts == DictGet(data, periods[i])
     IN  IF DictHas(counts, repo) THEN DictGet(counts, repo) ELSE 0]

\* One insertion of the stable sort by date: after the last commit that is
\* not later.
InsertByDate(sorted, c) ==
  LET when(x) == ToOrdinal(Strptime(x.date).val)
      n == Cardinality({i \in 1 .. Len(sorted) : when(sorted[i]) <= when(c)})
  IN  SubSeq(sorted, 1, n) \o <<c>> \o SubSeq(sorted, n + 1, Len(sorted))

RECURSIVE SortedByDate(_)
SortedByDate(commits) ==
  IF commits = << >> THEN << >>
  ELSE InsertByDate(SortedByDate(SubSeq(commits, 1, Len(commits) - 1)), commits[Len(commits)])

\* commits.sort(key=lambda c: datetime.strptime(c.date, "%Y-%m-%d")): the
\* key function raises on a date that does not parse.
SortCommits(commits) ==
  IF \E i \in 1 .. Len(commits) : Strptime(commits[i].date).exc # "none"
  THEN Raised("ValueError")
  ELSE Returned(SortedByDate(commits))

(***************************************************************************)
(* Repository discovery                                                    *)
(***************************************************************************)
\* pat.search(s) for a pattern that is a literal: p occurs in s.
Search(p, s) == \E i \in 1 .. Len(s) - Len(p) + 1 : SubSeq(s, i, i + Len(p) - 1) = p

\* any(pat.search(root) for pat in exclude_patterns)
Excluded(root, patterns) == \E p \in patterns : Search(p, root)

DotGit == <<".", "g", "i", "t">>

\* os.path.join(top, dirname)
PathJoin(top, dirname) == top \o <<"/">> \o dirname

\* The path string os.walk gives for the directory at relative path rel
\* (a sequence of names) under base.
RECURSIVE RootStr(_, _)
RootStr(base, rel) ==
  IF rel = << >> THEN base
  ELSE PathJoin(RootStr(base, SubSeq(rel, 1, Len(rel) - 1)), rel[Len(rel)])

\* Whether find_git_repos appends the directory: not excluded, .git in dirs.
IsReported(root, dirs, patterns) == ~Excluded(root, patterns) /\ DotGit \in dirs

\* A walk that filters excluded and repository directories from the report
\* only and descends everywhere.
DirsLeftNoPrune(root, dirs, patterns) == dirs

\* The names left in dirs when the loop body is done, which os.walk then
\* descends into: none under an excluded directory or a repository.
DirsLeft(root, dirs, patterns) ==
  IF Excluded(root, patterns) THEN {}
  ELSE IF DotGit \in dirs THEN {}
  ELSE dirs

\* The orders in which a set of names can be listed.
Orderings(S) == {q \in [1 .. Cardinality(S) -> S] : \A i, j \in DOMAIN q : q[i] = q[j] => i = j}

(***************************************************************************)
(* Commit extraction                                                       *)
(***************************************************************************)
NL == "\n"

\* str.splitlines() for text whose only line boundary is the newline: the
\* pieces between newlines, without a last empty piece.
SplitLines(text) ==
  IF text = << >> THEN << >>
  ELSE LET pieces == SplitAll(text, NL)
       IN  IF pieces[Len(pieces)] = << >> THEN SubSeq(pieces, 1, Len(pieces) - 1)
           ELSE pieces

\* not line.strip(): the line is empty or only spaces.
IsBlank(line) == \A i \in 1 .. Len(line) : line[i] = " "

\* line.split("|", maxsplit): at most maxsplit splits, the rest is kept whole.
RECURSIVE SplitMax(_, _, _)
SplitMax(s, sep, maxsplit) ==
  IF maxsplit = 0 \/ \A i \in 1 .. Len(s) : s[i] # sep THEN <<s>>
  ELSE LET k == CHOOSE i \in 1 .. Len(s) :
                  s[i] = sep /\ \A j \in 1 .. i - 1 : s[j] # sep
       IN  <<SubSeq(s, 1, k - 1)>> \o SplitMax(SubSeq(s, k + 1, Len(s)), sep, maxsplit - 1)

\* s[:n]
Take(s, n) == SubSeq(s, 1, IF Len(s) < n THEN Len(s) ELSE n)

\* s.rstrip("/")
RECURSIVE RStripSep(_)
RStripSep(s) ==
  IF s # << >> /\ s[Len(s)] = "/" THEN RStripSep(SubSeq(s, 1, Len(s) - 1)) ELSE s

\* os.path.basename(s): what follows the last "/".
Basename(s) ==
  LET slashes == {i \in 1 .. Len(s) : s[i] = "/"}
  IN  IF slashes = {} THEN s
      ELSE SubSeq(s, (CHOOSE i \in slashes : \A j \in slashes : j <= i) + 1, Len(s))

\* The loop over the output lines from line i on: blank lines are skipped,
\* a line is split in at most four fields and unpacked in exactly four (a
\* ValueError otherwise), the hash is cut to seven characters.
RECURSIVE ParseLines(_, _, _, _)
ParseLines(lines, repo_name, i, commits) ==
  IF i > Len(lines) THEN Returned(commits)
  ELSE IF IsBlank(lines[i]) THEN ParseLines(lines, repo_name, i + 1, commits)
  ELSE LET f == SplitMax(lines[i], "|", 3)
       IN  IF Len(f) # 4 THEN Raised("ValueError")
           ELSE ParseLines(lines, repo_name, i + 1,
                  Append(commits, [repo_name |-> repo_name, hash |-> Take(f[1], 7),
                                   author |-> f[2], date |-> f[3], subject |-> f[4]]))

\* get_commit_stats(repo_path, ...) where the git process ends with
\* returncode and stdout.  repo_path is [kind, path]: a str or a
\* pathlib.Path.  Building cmd calls repo_path.absolute(), which only a
\* Path has; after a successful run repo_path.rstrip(os.sep) is called,
\* which only a str has.
get_commit_stats(repo_path, returncode, stdout) ==
  IF repo_path.kind # "Path" THEN Raised("AttributeError")
  ELSE IF returncode # 0 THEN Returned(<< >>)
  ELSE IF repo_path.kind # "str" THEN Raised("AttributeError")
  ELSE ParseLines(SplitLines(stdout), Basename(RStripSep(repo_path.path)), 1, << >>)

(***************************************************************************)
(* Export and plots                                                        *)
(***************************************************************************)
\* The file system: a dictionary from path to content.  A call's effect is
\* [res, files]: its outcome and the files after it.
Effect(res, fs) == [res |-> res, files |-> fs]

\* s.lower() over the letters that occur in output paths.
LowerChar(c) ==
  CASE c = "C" -> "c" [] c = "S" -> "s" [] c = "V" -> "v" [] c = "O" -> "o"
    [] OTHER -> c

Lower(s) == [i \in 1 .. Len(s) |-> LowerChar(s[i])]

\* s.endswith(t)
EndsWith(s, t) == Len(s) >= Len(t) /\ SubSeq(s, Len(s) - Len(t) + 1, Len(s)) = t

\* json.dump(commits, f, default = lambda o: o.__dict__): the sequence of
\* the commits' fields.
JsonDoc(commits) == [kind |-> "json", rows |-> commits]

\* csv.DictWriter: writeheader(), then writerow per commit.
CsvDoc(commits) ==
  [kind |-> "csv",
   rows |-> << <<"repo_name", "hash", "author", "date", "subject">> >>
            \o [i \in 1 .. Len(commits) |->
                  <<commits[i].repo_name, commits[i].hash, commits[i].author,
                    commits[i].date, commits[i].subject>>]]

\* exporters.export_json(commits, out)
export_json(commits, out, fs) == Effect(Returned(<< >>), DictSet(fs, out, JsonDoc(commits)))

\* exporters.export_csv(commits, out): the file is opened and the header
\* written whatever commits holds.
export_csv(commits, out, fs) == Effect(Returned(<< >>), DictSet(fs, out, CsvDoc(commits)))

\* exporters.exporters[fmt](commits, out); a name outside the table is a KeyError.
exporters(fmt, commits, out, fs) ==
  IF fmt = <<"j", "s", "o", "n">> THEN export_json(commits, out, fs)
  ELSE IF fmt = <<"c", "s", "v">> THEN export_csv(commits, out, fs)
  ELSE Effect(Raised("KeyError"), fs)

\* git_report.export_data(commits, fmt, output_file)
export_data(commits, fmt, output_file, fs) ==
  LET out == IF EndsWith(Lower(output_file), <<".">> \o fmt) THEN output_file
             ELSE output_file \o <<".">> \o fmt
  IN  IF fmt = <<"j", "s", "o", "n">>
        THEN Effect(Returned(<< >>), DictSet(fs, out, JsonDoc(commits)))
      ELSE IF fmt = <<"c", "s", "v">>
        THEN (IF commits = << >> THEN Effect(Returned(<< >>), fs)
              ELSE Effect(Returned(<< >>), DictSet(fs, out, CsvDoc(commits))))
      ELSE Effect(Raised("ValueError"), fs)

\* plt.savefig(output_file) of a chart of commits.
Chart(chart, commits) == [kind |-> "image", rows |-> <<chart, commits>>]

\* plotters.plot_commits and plotters.plot_summary on well-formed commits:
\* an empty list is a ValueError, otherwise the chart is saved.
plotters(chart, commits, output_file, fs) ==
  IF commits = << >> THEN Effect(Raised("ValueError"), fs)
  ELSE Effect(Returned(<< >>), DictSet(fs, output_file, Chart(chart, commits)))

\* git_report.plot_commits and git_report.plot_summary on well-formed
\* commits: an empty list is a plain return, otherwise the chart is saved.
gr_plot(chart, commits, output_file, fs) ==
  IF commits = << >> THEN Effect(Returned(<< >>), fs)
  ELSE Effect(Returned(<< >>), DictSet(fs, output_file, Chart(chart, commits)))

(***************************************************************************)
(* State                                                                   *)
(***************************************************************************)
VARIABLES
  fpCall,   \* the format_period call made: [impl, date, period]
  fpRes,    \* its outcome
  aggPc,    \* aggregate_by_period: "idle" or "done"
  aggIn,    \* its arguments [commits, period]
  aggRes,   \* its outcome: the ordered mapping as <<key, count>> entries
  genPc,    \* generate_dates: "idle", "loop", "returned" or "raised"
  genIn,    \* its arguments [start, end, step, interval]
  genCur,   \* its cursor, current
  genEnd,   \* end_date
  genDates, \* the mapping dates
  walkPc,      \* find_git_repos: "idle", "walking" or "returned"
  walkIn,      \* [base, tree, git, patterns]: base path, the directories below it
               \* (relative paths), those that hold a .git directory, the patterns
  walkStack,   \* os.walk's stack of directories still to visit (relative paths)
  walkVisited, \* the directories os.walk has yielded
  git_repos,   \* the list find_git_repos builds
  gcsIn,       \* a direct get_commit_stats call: [repo_path, returncode, stdout]
  gcsRes,      \* its outcome
  mainPc,      \* main: "idle", "scan", "summary", "failure" (EXIT_FAILURE) or
               \* "crashed" (an exception left main)
  mainRepos,   \* repos, as find_git_repos returned it
  mainIdx,     \* the position of the for loop in repos
  mainRuns,    \* the get_commit_stats calls made so far: [repo, res]
  mainCommits, \* commits
  mainTotal,   \* total
  outCall,     \* an export or plot call: [op, kind, commits, path]
  outRes,      \* its outcome
  files,       \* the file system after it
  plotPc,      \* plot_commits: "idle", "skeleton", "fill", "saved" or "raised"
  plotIn,      \* [caller, commits, period, output_file]
  plotData,    \* data: period key -> (repository -> count)
  plotRepos,   \* repos while filling: the set of repository names
  plotIdx,     \* the position of the fill loop in commits
  plotOut,     \* what is drawn: [periods, repos, heights]
  ordIn,       \* two dates keyed and sorted: [impl, d1, d2, period]
  ordOut       \* [k1, k2, sorted]: their keys, and the keys as sorted() orders them

keyVars == <<fpCall, fpRes>>
aggVars == <<aggPc, aggIn, aggRes>>
genVars == <<genPc, genIn, genCur, genEnd, genDates>>
walkVars == <<walkPc, walkIn, walkStack, walkVisited, git_repos>>
gcsVars == <<gcsIn, gcsRes>>
mainVars == <<mainPc, mainRepos, mainIdx, mainRuns, mainCommits, mainTotal>>
outVars == <<outCall, outRes, files>>
plotVars == <<plotPc, plotIn, plotData, plotRepos, plotIdx, plotOut>>
ordVars == <<ordIn, ordOut>>
vars == <<keyVars, aggVars, genVars, walkVars, gcsVars, mainVars, outVars, plotVars, ordVars>>

(***************************************************************************)
(* Period keys: calls of format_period                                     *)
(***************************************************************************)
\* Years of the dates given to format_period: FirstYear .. FirstYear + YearSpan.
YearSpan == 40

KeyYears == 1988 .. 1988 + YearSpan

KeyDates ==
  {[year |-> y, month |-> m, day |-> d] :
     y \in KeyYears, m \in 1 .. 12, d \in 1 .. 31}

ValidDate(dt) == dt.day <= DaysInMonth(dt.year, dt.month)

\* No call made yet.
NoCall == [impl |-> "none", date |-> NoDate, period |-> "None"]

KeyIdle == fpCall = NoCall /\ fpRes = Returned(<< >>)

FormatPeriodCall ==
  /\ fpCall = NoCall
  /\ \E impl \in {"plotters", "git_report"} :
     \E date \in {dt \in KeyDates : ValidDate(dt)} \cup {NoDate} :
     \E period \in Periods \cup {"None"} :
    /\ fpCall' = [impl |-> impl, date |-> date, period |-> period]
    /\ fpRes' = FormatPeriodOf(impl, date, period)
  /\ UNCHANGED <<plotVars, ordVars, aggVars, genVars, walkVars, gcsVars, mainVars, outVars>>

(***************************************************************************)
(* Aggregation: calls of aggregate_by_period and generate_dates            *)
(***************************************************************************)
\* Longest commit list given to an operation.
MaxCommits == 3

\* Last day, counted from GenBase, of the dates given to generate_dates.
GenSpan == 40

\* Largest interval given to generate_dates.
MaxInterval == 2

Str_RepoA == <<"a">>
Str_RepoB == <<"b">>
Str_Hash == <<"a", "b", "e">>
Str_Author == <<"a", "x">>
Str_Subject == <<"x">>

MkCommit(repo, date) ==
  [repo_name |-> repo, hash |-> Str_Hash, author |-> Str_Author,
   date |-> StrfDay(date), subject |-> Str_Subject]

\* Commit dates around a year, month and ISO-week boundary.
AggBase == [year |-> 2023, month |-> 12, day |-> 31]

AggDates == {AddDays(AggBase, k) : k \in {0, 1, 3, 10}}

AggCommits == {MkCommit(r, d) : r \in {Str_RepoA, Str_RepoB}, d \in AggDates}

SeqsUpTo(S, n) == UNION {[1 .. k -> S] : k \in 0 .. n}

AggIdle ==
  /\ aggPc = "idle"
  /\ aggIn = [commits |-> << >>, period |-> "None"]
  /\ aggRes = Returned(<< >>)

AggregateCall ==
  /\ aggPc = "idle" /\ genPc = "idle"
  /\ \E commits \in SeqsUpTo(AggCommits, MaxCommits) :
     \E period \in Periods :
       /\ aggIn' = [commits |-> commits, period |-> period]
       /\ aggRes' = aggregate_by_period(commits, period)
  /\ aggPc' = "done"
  /\ UNCHANGED <<keyVars, ordVars, plotVars, genVars, walkVars, gcsVars, mainVars, outVars>>

\* Start and end dates from late January to early March of a leap year.
GenBase == [year |-> 2024, month |-> 1, day |-> 25]

GenStarts == {AddDays(GenBase, k) : k \in 0 .. 7}

GenEnds == {AddDays(GenBase, k) : k \in 0 .. GenSpan}

GenIdle ==
  /\ genPc = "idle"
  /\ genIn = [start |-> MkCommit(Str_RepoA, GenBase), end |-> MkCommit(Str_RepoA, GenBase),
              step |-> "None", interval |-> 1]
  /\ genCur = NoDate
  /\ genEnd = NoDate
  /\ genDates = << >>

\* generate_dates up to the loop: both dates parsed, the cursor at the start.
GenerateDatesEnter(sc, ec, step, interval) ==
  LET sd == Strptime(sc.date)
      ed == Strptime(ec.date)
  IN  /\ genIn' = [start |-> sc, end |-> ec, step |-> step, interval |-> interval]
      /\ IF sd.exc # "none" \/ ed.exc # "none"
         THEN genPc' = "raised" /\ genCur' = NoDate /\ genEnd' = NoDate
         ELSE genPc' = "loop" /\ genCur' = sd.val /\ genEnd' = ed.val
      /\ genDates' = << >>

\* generate_dates called on its own.
GenerateDatesCall ==
  /\ aggPc = "idle" /\ genPc = "idle"
  /\ \E start \in GenStarts, end \in GenEnds :
     \E step \in Periods \cup {"None"}, interval \in 1 .. MaxInterval :
       GenerateDatesEnter(MkCommit(Str_RepoA, start), MkCommit(Str_RepoB, end), step, interval)
  /\ UNCHANGED <<keyVars, ordVars, plotVars, aggVars, walkVars, gcsVars, mainVars, outVars>>

\* One iteration of the while loop: the key of the cursor is put in dates
\* with an empty per-repository mapping, then the cursor advances.  The copy
\* in git_report.py differs only in calling its own format_period, which
\* gives the same keys for a date.
GenerateDatesIter ==
  /\ genPc = "loop"
  /\ DateLeq(genCur, genEnd)
  /\ LET tag == format_period(genCur, genIn.step)
     IN  IF tag.exc # "none"
         THEN genPc' = "raised" /\ UNCHANGED <<genCur, genDates>>
         ELSE /\ genDates' = DictSet(genDates, tag.val, << >>)
              /\ genCur' = StepDate(genCur, genIn.step, genIn.interval)
              /\ genPc' = "loop"
  /\ UNCHANGED <<keyVars, ordVars, plotVars, aggVars, walkVars, gcsVars, mainVars, outVars, genIn, genEnd>>

\* The loop condition fails: dates is returned.
GenerateDatesReturn ==
  /\ genPc = "loop"
  /\ ~DateLeq(genCur, genEnd)
  /\ genPc' = "returned"
  /\ UNCHANGED <<keyVars, ordVars, plotVars, aggVars, walkVars, gcsVars, mainVars, outVars, genIn, genCur, genEnd, genDates>>

(***************************************************************************)
(* Repository discovery: find_git_repos over os.walk                       *)
(***************************************************************************)
\* Most directories below the base path in a scanned tree.
MaxDirs == 3

Str_root == <<"r", "o", "o", "t">>
Str_a == <<"a">>
Str_vendor == <<"v", "e", "n", "d", "o", "r">>
Str_excluded == <<"e", "x", "c", "l", "u", "d", "e", "d">>

DirNames == {Str_a, Str_vendor, Str_excluded}

\* Relative paths a scanned tree may hold: one or two levels, and some of three.
TreePaths ==
  {<<n>> : n \in DirNames} \cup {<<n, m>> : n \in DirNames, m \in DirNames}
    \cup {<<Str_a, Str_a, n>> : n \in DirNames} \cup {<<Str_a, Str_vendor, Str_a>>}

Parent(rel) == SubSeq(rel, 1, Len(rel) - 1)

\* Every directory but the base has its parent in the tree.
Trees ==
  {t \in SUBSET TreePaths :
     Cardinality(t) <= MaxDirs /\ \A rel \in t : Len(rel) > 1 => Parent(rel) \in t}

PatternSets == {ps \in SUBSET {Str_vendor, Str_excluded, <<"e">>, <<"o">>} : Cardinality(ps) <= 2}

\* The names os.walk lists in dirs for a directory.
DirsOf(rel) ==
  {c[Len(c)] : c \in {t \in walkIn.tree : Len(t) = Len(rel) + 1 /\ Parent(t) = rel}}
    \cup (IF rel \in walkIn.git THEN {DotGit} ELSE {})

WalkIdle ==
  /\ walkPc = "idle"
  /\ walkIn = [base |-> Str_root, tree |-> {}, git |-> {}, patterns |-> {}]
  /\ walkStack = << >>
  /\ walkVisited = {}
  /\ git_repos = << >>

FindGitReposCall ==
  /\ walkPc = "idle" /\ aggPc = "idle" /\ genPc = "idle" /\ fpCall = NoCall
  /\ \E tree \in Trees :
     \E git \in SUBSET (tree \cup {<< >>}) :
     \E patterns \in PatternSets :
       walkIn' = [base |-> Str_root, tree |-> tree, git |-> git, patterns |-> patterns]
  /\ walkPc' = "walking"
  /\ walkStack' = << << >> >>
  /\ walkVisited' = {}
  /\ git_repos' = << >>
  /\ UNCHANGED <<keyVars, ordVars, plotVars, aggVars, genVars, gcsVars, mainVars, outVars>>

\* One iteration of the for loop: os.walk pops a directory and yields it,
\* the body prunes or reports, and os.walk pushes what is left of dirs (in
\* reverse, so that the first listed is visited first; the listing order is
\* the file system's).
WalkVisit ==
  /\ walkPc = "walking"
  /\ walkStack # << >>
  /\ LET rel == walkStack[Len(walkStack)]
         root == RootStr(walkIn.base, rel)
         dirs == DirsOf(rel)
         left == DirsLeft(root, dirs, walkIn.patterns)
     IN  /\ walkVisited' = walkVisited \cup {rel}
         /\ git_repos' = IF IsReported(root, dirs, walkIn.patterns)
                         THEN Append(git_repos, root) ELSE git_repos
         /\ \E order \in Orderings(left \ {DotGit}) :
              walkStack' = SubSeq(walkStack, 1, Len(walkStack) - 1)
                             \o [i \in 1 .. Len(order) |->
                                   Append(rel, order[Len(order) + 1 - i])]
  /\ UNCHANGED <<keyVars, ordVars, plotVars, aggVars, genVars, gcsVars, mainVars, outVars, walkPc, walkIn>>

\* The walk is exhausted: git_repos is returned.
WalkReturn ==
  /\ walkPc = "walking"
  /\ walkStack = << >>
  /\ walkPc' = "returned"
  /\ UNCHANGED <<keyVars, ordVars, plotVars, aggVars, genVars, gcsVars, mainVars, outVars, walkIn, walkStack, walkVisited, git_repos>>

(***************************************************************************)
(* Commit extraction and the scan loop of main                             *)
(***************************************************************************)
\* Most output lines of one git run.
MaxLines == 2

\* Most repositories find_git_repos hands to main.
MaxRepos == 2

Str_Line1 ==
  <<"0", "1", "2", "3", "4", "5", "6", "7", "8", "|", "a", "x", "|",
    "2", "0", "2", "4", "-", "0", "1", "-", "0", "1", "|", "x">>
Str_LinePipes ==
  <<"a", "b", "e", "0", "1", "2", "3", "4", "5", "|", "a", "x", "|",
    "2", "0", "2", "4", "-", "0", "1", "-", "0", "3", "|", "x", "|", "|", "x">>
Str_LineBlank == <<" ">>

\* A line with two fields only, and a line whose date is no calendar date.
Str_LineShort == <<"0", "1", "2", "3", "4", "5", "6", "7", "8", "|", "a", "x">>
Str_LineBadDate ==
  <<"0", "1", "2", "3", "4", "5", "6", "7", "8", "|", "a", "x", "|",
    "2", "0", "2", "4", "-", "0", "2", "-", "3", "0", "|", "x">>

OutputLines ==
  {Str_Line1, Str_LinePipes, Str_LineBlank, << >>, Str_LineShort, Str_LineBadDate}

\* "\n".join(lines)
RECURSIVE JoinLines(_)
JoinLines(lines) ==
  IF lines = << >> THEN << >>
  ELSE IF Len(lines) = 1 THEN lines[1]
  ELSE lines[1] \o <<NL>> \o JoinLines(Tail(lines))

\* What a git run can write to stdout.
Stdouts == {JoinLines(ls) : ls \in SeqsUpTo(OutputLines, MaxLines)}

\* Exit statuses of git: success, and "not a git repository".
ReturnCodes == {0, 128}

RepoPaths == {PathJoin(Str_root, Str_a), PathJoin(Str_root, Str_vendor) \o <<"/">>, Str_root}

GcsIdle ==
  /\ gcsIn = [repo_path |-> [kind |-> "none", path |-> << >>], returncode |-> 0,
              stdout |-> << >>]
  /\ gcsRes = Returned(<< >>)

\* get_commit_stats called on its own, as git_report_test.py does with a
\* Path and main does with a str.
GetCommitStatsCall ==
  /\ gcsIn.repo_path.kind = "none" /\ mainPc = "idle"
  /\ \E kind \in {"str", "Path"}, path \in RepoPaths :
     \E rc \in ReturnCodes, out \in Stdouts :
       /\ gcsIn' = [repo_path |-> [kind |-> kind, path |-> path],
                    returncode |-> rc, stdout |-> out]
       /\ gcsRes' = get_commit_stats([kind |-> kind, path |-> path], rc, out)
  /\ UNCHANGED <<keyVars, ordVars, plotVars, aggVars, genVars, walkVars, mainVars, outVars>>

MainIdle ==
  /\ mainPc = "idle"
  /\ mainRepos = << >>
  /\ mainIdx = 1
  /\ mainRuns = << >>
  /\ mainCommits = << >>
  /\ mainTotal = 0

\* Lists of distinct repository paths.
RepoLists ==
  {rs \in SeqsUpTo(RepoPaths, MaxRepos) : \A i, j \in DOMAIN rs : rs[i] = rs[j] => i = j}

\* main up to the scan loop: find_git_repos has returned repos (strings
\* that os.walk made); with none, main returns EXIT_FAILURE.
MainCall ==
  /\ mainPc = "idle" /\ gcsIn.repo_path.kind = "none"
  /\ \E repos \in RepoLists :
       /\ mainRepos' = repos
       /\ mainPc' = IF repos = << >> THEN "failure" ELSE "scan"
  /\ UNCHANGED <<keyVars, ordVars, plotVars, aggVars, genVars, walkVars, gcsVars, outVars,
                 mainIdx, mainRuns, mainCommits, mainTotal>>

\* One iteration of the scan loop: get_commit_stats on the next repository,
\* whose git run ends as the environment decides; a non-empty result is
\* added to commits and total; an exception leaves main.
MainScanStep ==
  /\ mainPc = "scan"
  /\ \E rc \in ReturnCodes, out \in Stdouts :
       LET repo == mainRepos[mainIdx]
           res == get_commit_stats([kind |-> "str", path |-> repo], rc, out)
       IN  /\ mainRuns' = Append(mainRuns, [repo |-> repo, res |-> res])
           /\ IF res.exc # "none"
              THEN /\ mainPc' = "crashed"
                   /\ UNCHANGED <<mainIdx, mainCommits, mainTotal>>
              ELSE /\ mainCommits' = mainCommits \o res.val
                   /\ mainTotal' = mainTotal + Len(res.val)
                   /\ mainIdx' = mainIdx + 1
                   /\ mainPc' = IF mainIdx = Len(mainRepos) THEN "summary" ELSE "scan"
  /\ UNCHANGED <<keyVars, ordVars, plotVars, aggVars, genVars, walkVars, gcsVars, outVars, mainRepos>>

(***************************************************************************)
(* Export and plot calls                                                   *)
(***************************************************************************)
Str_json == <<"j", "s", "o", "n">>
Str_csv == <<"c", "s", "v">>
Str_xml == <<"x", "m", "l">>

\* Output paths: without extension, with it, and with it in capitals.
OutPaths == {<<"o">>, <<"o", ".", "c", "s", "v">>, <<"O", ".", "C", "S", "V">>,
             <<"o", ".", "j", "s", "o", "n">>}

OutCommits == {MkCommit(Str_RepoA, AggBase), MkCommit(Str_RepoB, AddDays(AggBase, 1))}

OutIdle ==
  /\ outCall = [op |-> "none", kind |-> << >>, commits |-> << >>, path |-> << >>]
  /\ outRes = Returned(<< >>)
  /\ files = << >>

\* export_data, the export entry point of git_report.py.
ExportDataCall ==
  /\ outCall.op = "none"
  /\ \E commits \in SeqsUpTo(OutCommits, MaxCommits), path \in OutPaths :
     \E fmt \in {Str_json, Str_csv, Str_xml} :
       LET e == export_data(commits, fmt, path, files)
       IN  /\ outCall' = [op |-> "export_data", kind |-> fmt, commits |-> commits,
                          path |-> path]
           /\ outRes' = e.res
           /\ files' = e.files
  /\ UNCHANGED <<keyVars, ordVars, plotVars, aggVars, genVars, walkVars, gcsVars, mainVars>>

\* An entry of the exporters table of exporters.py.
ExportersCall ==
  /\ outCall.op = "none"
  /\ \E commits \in SeqsUpTo(OutCommits, MaxCommits), path \in OutPaths :
     \E fmt \in {Str_json, Str_csv, Str_xml} :
       LET e == exporters(fmt, commits, path, files)
       IN  /\ outCall' = [op |-> "exporters", kind |-> fmt, commits |-> commits,
                          path |-> path]
           /\ outRes' = e.res
           /\ files' = e.files
  /\ UNCHANGED <<keyVars, ordVars, plotVars, aggVars, genVars, walkVars, gcsVars, mainVars>>

\* plot_commits ("stats") or plot_summary ("summary") of plotters.py.
PlottersCall ==
  /\ outCall.op = "none"
  /\ \E commits \in SeqsUpTo(OutCommits, MaxCommits), path \in OutPaths :
     \E chart \in {"stats", "summary"} :
       LET e == plotters(chart, commits, path, files)
       IN  /\ outCall' = [op |-> "plotters", kind |-> chart, commits |-> commits,
                          path |-> path]
           /\ outRes' = e.res
           /\ files' = e.files
  /\ UNCHANGED <<keyVars, ordVars, plotVars, aggVars, genVars, walkVars, gcsVars, mainVars>>

\* plot_commits ("stats") or plot_summary ("summary") of git_report.py.
GitReportPlotCall ==
  /\ outCall.op = "none"
  /\ \E commits \in SeqsUpTo(OutCommits, MaxCommits), path \in OutPaths :
     \E chart \in {"stats", "summary"} :
       LET e == gr_plot(chart, commits, path, files)
       IN  /\ outCall' = [op |-> "git_report", kind |-> chart, commits |-> commits,
                          path |-> path]
           /\ outRes' = e.res
           /\ files' = e.files
  /\ UNCHANGED <<keyVars, ordVars, plotVars, aggVars, genVars, walkVars, gcsVars, mainVars>>

(***************************************************************************)
(* plot_commits: skeleton, fill loop, drawing                              *)
(***************************************************************************)
Str_o == <<"o">>

D20231228 == [year |-> 2023, month |-> 12, day |-> 28]
D20240101 == [year |-> 2024, month |-> 1, day |-> 1]
D20240131 == [year |-> 2024, month |-> 1, day |-> 31]
D20240301 == [year |-> 2024, month |-> 3, day |-> 1]

\* A commit whose date is no calendar date.
BadDateCommit ==
  [repo_name |-> Str_RepoA, hash |-> Str_Hash, author |-> Str_Author,
   date |-> <<"2", "0", "2", "4", "-", "0", "2", "-", "3", "0">>, subject |-> Str_Subject]

\* Commits of two repositories: the last Thursday of 2023 and the Monday
\* after it (ISO weeks 2023-W52 and 2024-W01), the last day of January, the
\* first of March.
PlotCommits ==
  {MkCommit(Str_RepoA, D20231228), MkCommit(Str_RepoB, D20240101),
   MkCommit(Str_RepoA, D20240131), MkCommit(Str_RepoB, D20240301), BadDateCommit}

PlotIdle ==
  /\ plotPc = "idle"
  /\ plotIn = [caller |-> "none", commits |-> << >>, period |-> "None", output_file |-> << >>]
  /\ plotData = << >>
  /\ plotRepos = {}
  /\ plotIdx = 1
  /\ plotOut = [periods |-> << >>, repos |-> << >>, heights |-> << >>]

\* plot_commits up to the call of generate_dates.  It is called directly
\* (plotters.py's or git_report.py's copy) with a list as it is, or by main,
\* which sorts the list by date first and then calls git_report.py's copy.
\* An empty list is a ValueError in plotters.py and a plain return in
\* git_report.py.
PlotCommitsCall ==
  /\ plotPc = "idle" /\ genPc = "idle" /\ aggPc = "idle"
  /\ \E caller \in {"plotters", "git_report", "main"} :
     \E cs \in SeqsUpTo(PlotCommits, MaxCommits), period \in Periods :
       LET sorted == IF caller = "main" THEN SortCommits(cs) ELSE Returned(cs)
           commits == sorted.val
       IN  /\ plotIn' = [caller |-> caller, commits |-> IF sorted.exc = "none" THEN commits ELSE cs,
                         period |-> period, output_file |-> Str_o]
           /\ IF sorted.exc # "none"
              THEN plotPc' = "raised" /\ UNCHANGED genVars
              ELSE IF commits = << >>
              THEN /\ plotPc' = IF caller = "plotters" THEN "raised" ELSE "returned"
                   /\ UNCHANGED genVars
              ELSE /\ plotPc' = "skeleton"
                   /\ GenerateDatesEnter(commits[1], commits[Len(commits)], period, 1)
  /\ UNCHANGED <<keyVars, ordVars, aggVars, walkVars, gcsVars, mainVars, outVars,
                 plotData, plotRepos, plotIdx, plotOut>>

\* generate_dates has ended: its exception leaves plot_commits, its result
\* is data and the fill loop starts with repos empty.
PlotSkeletonDone ==
  /\ plotPc = "skeleton"
  /\ genPc \in {"returned", "raised"}
  /\ IF genPc = "raised"
     THEN plotPc' = "raised" /\ UNCHANGED <<plotData, plotRepos, plotIdx>>
     ELSE plotPc' = "fill" /\ plotData' = genDates /\ plotRepos' = {} /\ plotIdx' = 1
  /\ UNCHANGED <<keyVars, ordVars, aggVars, genVars, walkVars, gcsVars, mainVars, outVars,
                 plotIn, plotOut>>

\* One iteration of the fill loop.
PlotFillStep ==
  /\ plotPc = "fill"
  /\ plotIdx <= Len(plotIn.commits)
  /\ LET commit == plotIn.commits[plotIdx]
         key == IF plotIn.caller = "plotters" THEN make_period_key(commit, plotIn.period)
                ELSE gr_make_period_key(commit, plotIn.period)
     IN  IF key.exc # "none"
         THEN plotPc' = "raised" /\ UNCHANGED <<plotData, plotRepos, plotIdx>>
         ELSE /\ plotData' = FillCommit(plotData, key.val, commit.repo_name)
              /\ plotRepos' = plotRepos \cup {commit.repo_name}
              /\ plotIdx' = plotIdx + 1
              /\ plotPc' = "fill"
  /\ UNCHANGED <<keyVars, ordVars, aggVars, genVars, walkVars, gcsVars, mainVars, outVars,
                 plotIn, plotOut>>

\* After the fill loop: periods and repos sorted, one series of heights per
\* repository, the figure saved.
PlotSave ==
  /\ plotPc = "fill"
  /\ plotIdx > Len(plotIn.commits)
  /\ LET periods == SortedKeys(plotData)
         repos == SortedSet(plotRepos)
     IN  plotOut' = [periods |-> periods, repos |-> repos,
                     heights |-> [r \in 1 .. Len(repos) |-> Heights(plotData, periods, repos[r])]]
  /\ files' = DictSet(files, plotIn.output_file, Chart("stats", plotIn.commits))
  /\ plotPc' = "saved"
  /\ UNCHANGED <<keyVars, ordVars, aggVars, genVars, walkVars, gcsVars, mainVars, outCall, outRes,
                 plotIn, plotData, plotRepos, plotIdx>>

(***************************************************************************)
(* Sorting the period keys of two dates                                    *)
(***************************************************************************)
\* Last day, counted from OrdBase, of the earlier date.
OrdSpan == 330

\* Most days between the two dates.
OrdGap == 16

\* The dates run from February 2020 over the 53-week ISO year 2020 into
\* January 2021.
OrdBase == [year |-> 2020, month |-> 2, day |-> 20]

\* The dates by their distance in days from OrdBase.
OrdDates == [a \in 0 .. OrdSpan + OrdGap |-> AddDays(OrdBase, a)]

OrdIdle ==
  /\ ordIn = [impl |-> "none", d1 |-> NoDate, d2 |-> NoDate, period |-> "None"]
  /\ ordOut = [k1 |-> << >>, k2 |-> << >>, sorted |-> << >>]

\* The keys of two dates, the later one entered first, as keys of a mapping
\* that is then read in sorted() order, as plot_commits sorts data.keys()
\* and aggregate_by_period sorts counts.items().
SortKeysCall ==
  /\ ordIn.impl = "none"
  /\ \E impl \in {"plotters", "git_report"}, period \in Periods :
     \E a \in 0 .. OrdSpan, gap \in 0 .. OrdGap :
       LET d1 == OrdDates[a]
           d2 == OrdDates[a + gap]
           k1 == FormatPeriodOf(impl, d1, period).val
           k2 == FormatPeriodOf(impl, d2, period).val
       IN  /\ ordIn' = [impl |-> impl, d1 |-> d1, d2 |-> d2, period |-> period]
           /\ ordOut' = [k1 |-> k1, k2 |-> k2,
                         sorted |-> SortedKeys(DictSet(DictSet(<< >>, k2, << >>), k1, << >>))]
  /\ UNCHANGED <<keyVars, aggVars, genVars, walkVars, gcsVars, mainVars, outVars, plotVars>>

(***************************************************************************)
(* Specifications                                                          *)
(***************************************************************************)
Init ==
  /\ KeyIdle /\ AggIdle /\ GenIdle /\ WalkIdle /\ GcsIdle /\ MainIdle /\ OutIdle
  /\ PlotIdle /\ OrdIdle

OrdNext == SortKeysCall

SpecOrd == Init /\ [][OrdNext]_vars

PlotNext ==
  \/ PlotCommitsCall
  \/ GenerateDatesIter
  \/ GenerateDatesReturn
  \/ PlotSkeletonDone
  \/ PlotFillStep
  \/ PlotSave

SpecPlot == Init /\ [][PlotNext]_vars

KeyNext == FormatPeriodCall

SpecKey == Init /\ [][KeyNext]_vars

AggNext ==
  \/ AggregateCall
  \/ GenerateDatesCall
  \/ GenerateDatesIter
  \/ GenerateDatesReturn

SpecAgg == Init /\ [][AggNext]_vars

\* generate_dates is sequential code: once called, its loop keeps running
\* until it returns or raises.
GenNext == GenerateDatesCall \/ GenerateDatesIter \/ GenerateDatesReturn

SpecGen ==
  /\ Init /\ [][GenNext]_vars
  /\ WF_vars(GenerateDatesIter) /\ WF_vars(GenerateDatesReturn)

WalkNext == FindGitReposCall \/ WalkVisit \/ WalkReturn

SpecWalk == Init /\ [][WalkNext]_vars

MainNext == GetCommitStatsCall \/ MainCall \/ MainScanStep

SpecMain == Init /\ [][MainNext]_vars

OutNext == ExportDataCall \/ ExportersCall \/ PlottersCall \/ GitReportPlotCall

SpecOut == Init /\ [][OutNext]_vars


(***************************************************************************)
(* Properties of the period keys                                           *)
(***************************************************************************)
\* The Thursday of the Monday-to-Sunday week of a date, as an ordinal.
ThursdayOf(dt) == ToOrdinal(dt) - ((ToOrdinal(dt) + 6) % 7) + 3

D19900201 == [year |-> 1990, month |-> 2, day |-> 1]

\* C1: for every date d, format_period(d, DAY) is the zero-padded
\* YYYY-MM-DD of d, format_period(d, MONTH) is YYYY-MM, and
\* format_period(d, WEEK) is {iso_year}-W{iso_week:02d} by the ISO-8601
\* rules: the ISO year is the calendar year of the Thursday of d's week and
\* the ISO week is that Thursday's rank among the Thursdays of its year.
\* 1990-02-01 gives 1990-02-01, 1990-W05 and 1990-02.
C1_FormatPeriodKeys ==
  (fpCall # NoCall /\ fpCall.date # NoDate /\ fpCall.period \in Periods) =>
    LET d == fpCall.date
        k == fpRes.val
        t == ThursdayOf(d)
        iy == YearOfOrdinal(t)
        iw == ((t - DaysBeforeYear(iy) - 1) \div 7) + 1
    IN  /\ fpRes.exc = "none"
        /\ fpCall.period = "DAY" =>
             /\ Len(k) = 10 /\ k[5] = "-" /\ k[8] = "-"
             /\ AllDigits(SubSeq(k, 1, 4)) /\ DigitsVal(SubSeq(k, 1, 4)) = d.year
             /\ AllDigits(SubSeq(k, 6, 7)) /\ DigitsVal(SubSeq(k, 6, 7)) = d.month
             /\ AllDigits(SubSeq(k, 9, 10)) /\ DigitsVal(SubSeq(k, 9, 10)) = d.day
             /\ d = D19900201 => k = <<"1", "9", "9", "0", "-", "0", "2", "-", "0", "1">>
        /\ fpCall.period = "MONTH" =>
             /\ Len(k) = 7 /\ k[5] = "-"
             /\ AllDigits(SubSeq(k, 1, 4)) /\ DigitsVal(SubSeq(k, 1, 4)) = d.year
             /\ AllDigits(SubSeq(k, 6, 7)) /\ DigitsVal(SubSeq(k, 6, 7)) = d.month
             /\ d = D19900201 => k = <<"1", "9", "9", "0", "-", "0", "2">>
        /\ fpCall.period = "WEEK" =>
             /\ Len(k) = 8 /\ k[5] = "-" /\ k[6] = "W"
             /\ AllDigits(SubSeq(k, 1, 4)) /\ DigitsVal(SubSeq(k, 1, 4)) = iy
             /\ AllDigits(SubSeq(k, 7, 8)) /\ DigitsVal(SubSeq(k, 7, 8)) = iw
             /\ d = D19900201 => k = <<"1", "9", "9", "0", "-", "W", "0", "5">>

\* A WEEK key was returned whose ISO year is not the date's calendar year.
C1_Witness ==
  /\ fpCall.period = "WEEK" /\ fpCall.date # NoDate /\ fpRes.exc = "none"
  /\ DigitsVal(SubSeq(fpRes.val, 1, 4)) # fpCall.date.year

\* C2: format_period with a period outside DAY, WEEK, MONTH, or with an
\* absent date, raises ValueError in every implementation and returns no key.
C2_FormatPeriodErrors ==
  (fpCall # NoCall /\ (fpCall.period \notin Periods \/ fpCall.date = NoDate)) =>
    fpRes.exc = "ValueError"


(***************************************************************************)
(* Properties of the aggregation                                           *)
(***************************************************************************)
RECURSIVE SumValues(_)
SumValues(d) == IF d = << >> THEN 0 ELSE d[1][2] + SumValues(Tail(d))

\* The period key of the date of the i-th commit given to aggregate_by_period.
AggKey(i) == make_period_key(aggIn.commits[i], aggIn.period).val

K20240101 == <<"2", "0", "2", "4", "-", "0", "1", "-", "0", "1">>
K20240103 == <<"2", "0", "2", "4", "-", "0", "1", "-", "0", "3">>
K20240110 == <<"2", "0", "2", "4", "-", "0", "1", "-", "1", "0">>

\* C6: aggregate_by_period(commits, p) maps each period key to the number
\* of commits whose date has that key, entries ascending by key, values
\* summing to len(commits); empty input gives an empty mapping; commits on
\* 2024-01-01, 2024-01-03, 2024-01-10 give {2024-01: 3} for MONTH and three
\* entries of 1 for DAY.
C6_AggregateCounts ==
  aggPc = "done" =>
    LET cs == aggIn.commits
        r == aggRes.val
    IN  /\ aggRes.exc = "none"
        /\ \A i \in 1 .. Len(cs) : DictHas(r, AggKey(i))
        /\ \A j \in 1 .. Len(r) :
             /\ r[j][2] = Cardinality({i \in 1 .. Len(cs) : AggKey(i) = r[j][1]})
             /\ r[j][2] >= 1
        /\ \A j \in 1 .. Len(r) - 1 : StrLess(r[j][1], r[j + 1][1])
        /\ SumValues(r) = Len(cs)
        /\ cs = << >> => r = << >>
        /\ (Len(cs) = 3 /\ cs[1].date = K20240101 /\ cs[2].date = K20240103
              /\ cs[3].date = K20240110) =>
             /\ aggIn.period = "MONTH" =>
                  r = << <<SubSeq(K20240101, 1, 7), 3>> >>
             /\ aggIn.period = "DAY" =>
                  r = << <<K20240101, 1>>, <<K20240103, 1>>, <<K20240110, 1>> >>

\* Three commits were counted into two periods, the later period first.
C6_Witness ==
  /\ aggPc = "done" /\ aggRes.exc = "none"
  /\ Len(aggIn.commits) = 3 /\ Len(aggRes.val) = 2
  /\ StrLess(AggKey(2), AggKey(1))

\* The dates from the start date to the end date of generate_dates.
GenSpanDates ==
  {FromOrdinal(n) : n \in ToOrdinal(Strptime(genIn.start.date).val)
                            .. ToOrdinal(Strptime(genIn.end.date).val)}

\* C7: for DAY, WEEK and MONTH and start.date <= end.date, the skeleton
\* returned by generate_dates with interval 1 has a key for every period
\* that intersects the span from start.date to end.date, the period of
\* end.date included, each mapped to an empty per-repository mapping.
C7_SkeletonCoversSpan ==
  (genPc = "returned" /\ genIn.interval = 1 /\ genIn.step \in Periods) =>
    /\ \A d \in GenSpanDates : DictHas(genDates, format_period(d, genIn.step).val)
    /\ \A j \in 1 .. Len(genDates) : genDates[j][2] = << >>


(***************************************************************************)
(* Properties of the repository discovery                                  *)
(***************************************************************************)
\* The directories on the way from the base to rel, both included.
Prefixes(rel) == {SubSeq(rel, 1, k) : k \in 0 .. Len(rel)}

WalkExcluded(rel) == Excluded(RootStr(walkIn.base, rel), walkIn.patterns)

\* Directories that hold .git, with no excluded directory on the way from
\* the base to them and no .git in a proper ancestor.
ExpectedRepos ==
  {rel \in walkIn.tree \cup {<< >>} :
     /\ rel \in walkIn.git
     /\ \A a \in Prefixes(rel) : ~WalkExcluded(a)
     /\ \A a \in Prefixes(rel) \ {rel} : a \notin walkIn.git}

ExampleTree == {<<Str_a>>, <<Str_a, Str_vendor>>, <<Str_excluded>>}

IsExampleScan ==
  /\ walkIn.tree = ExampleTree /\ walkIn.git = ExampleTree
  /\ walkIn.patterns = {Str_excluded, Str_vendor}

\* C5: find_git_repos returns exactly the directories that directly hold a
\* .git directory, with no directory from the scan root to them matching an
\* exclude pattern and no proper ancestor holding .git; no directory inside
\* an excluded subtree or beneath a reported repository is visited or
\* reported; root/a/.git, root/a/vendor/.git, root/excluded/.git with
\* excluded|vendor gives root/a alone.
C5_FindGitRepos ==
  /\ \A rel \in walkVisited : \A a \in Prefixes(rel) \ {rel} :
       ~WalkExcluded(a) /\ a \notin walkIn.git
  /\ walkPc = "returned" =>
       /\ {git_repos[i] : i \in 1 .. Len(git_repos)}
            = {RootStr(walkIn.base, rel) : rel \in ExpectedRepos}
       /\ Len(git_repos) = Cardinality(ExpectedRepos)
       /\ IsExampleScan => git_repos = <<PathJoin(Str_root, Str_a)>>

\* The scan of the example tree has returned.
C5_Witness == walkPc = "returned" /\ IsExampleScan /\ Len(git_repos) = 1


(***************************************************************************)
(* Properties of the commit extraction and the scan                        *)
(***************************************************************************)
GcsCalled == gcsIn.repo_path.kind # "none"

\* The non-blank lines of the output of the direct call, in order.
RECURSIVE NonBlank(_)
NonBlank(lines) ==
  IF lines = << >> THEN << >>
  ELSE IF IsBlank(Head(lines)) THEN NonBlank(Tail(lines))
  ELSE <<Head(lines)>> \o NonBlank(Tail(lines))

GcsLines == NonBlank(SplitLines(gcsIn.stdout))

\* The positions of "|" in a line, and the position of the n-th of them.
Pipes(line) == {i \in 1 .. Len(line) : line[i] = "|"}

NthPipe(line, n) ==
  CHOOSE i \in Pipes(line) : Cardinality({j \in Pipes(line) : j < i}) = n - 1

\* C3: get_commit_stats raises the external-tool error (RuntimeError)
\* whenever the git process exits non-zero; a non-zero exit never gives a
\* returned list, and an empty list is returned only after exit status zero
\* with no commit lines.
C3_NonZeroExitRaises ==
  GcsCalled =>
    /\ gcsIn.returncode # 0 => gcsRes.exc = "RuntimeError"
    /\ gcsRes = Returned(<< >>) => (gcsIn.returncode = 0 /\ GcsLines = << >>)

\* The commits of the successful calls of the scan, concatenated.
RECURSIVE CommitsOfRuns(_)
CommitsOfRuns(runs) ==
  IF runs = << >> THEN << >>
  ELSE (IF Head(runs).res.exc = "none" THEN Head(runs).res.val ELSE << >>)
         \o CommitsOfRuns(Tail(runs))

\* C4: in the scan of main a failed extraction does not abort the scan:
\* every discovered repository is extracted once, in sequence, and at the
\* end of the loop commits is the concatenation of what the successful
\* extractions returned.
C4_ScanSurvivesFailure ==
  /\ mainPc # "crashed"
  /\ mainPc = "summary" =>
       /\ Len(mainRuns) = Len(mainRepos)
       /\ \A i \in 1 .. Len(mainRuns) : mainRuns[i].repo = mainRepos[i]
       /\ mainCommits = CommitsOfRuns(mainRuns)

\* C10: for output lines of the form hash|author|date|subject,
\* get_commit_stats gives one Commit per non-blank line, in the order of
\* the lines: the subject is all that follows the third "|", the hash the
\* first 7 characters of the full hash, repo_name the basename of the
\* repository path; blank lines give no Commit.
C10_OneCommitPerLine ==
  (GcsCalled /\ gcsIn.returncode = 0 /\ GcsLines # << >>
     /\ \A k \in 1 .. Len(GcsLines) : Cardinality(Pipes(GcsLines[k])) >= 3) =>
    /\ gcsRes.exc = "none"
    /\ Len(gcsRes.val) = Len(GcsLines)
    /\ \A k \in 1 .. Len(GcsLines) :
         LET line == GcsLines[k]
             c == gcsRes.val[k]
             path == gcsIn.repo_path.path
         IN  /\ c.subject = SubSeq(line, NthPipe(line, 3) + 1, Len(line))
             /\ c.hash = SubSeq(line, 1, 7)
             /\ c.author = SubSeq(line, NthPipe(line, 1) + 1, NthPipe(line, 2) - 1)
             /\ c.date = SubSeq(line, NthPipe(line, 2) + 1, NthPipe(line, 3) - 1)
             /\ c.repo_name # << >>
             /\ \A i \in 1 .. Len(c.repo_name) : c.repo_name[i] # "/"
             /\ \E t \in 0 .. Len(path) :
                  /\ EndsWith(SubSeq(path, 1, Len(path) - t), c.repo_name)
                  /\ \A i \in Len(path) - t + 1 .. Len(path) : path[i] = "/"
                  /\ (Len(path) - t = Len(c.repo_name)
                        \/ path[Len(path) - t - Len(c.repo_name)] = "/")

\* The date field of an output line with at least three "|".
DateField(line) == SubSeq(line, NthPipe(line, 2) + 1, NthPipe(line, 3) - 1)

\* A line that is not hash|author|date|subject with a YYYY-MM-DD date.
Malformed(line) ==
  \/ Cardinality(Pipes(line)) < 3
  \/ Strptime(DateField(line)).exc # "none"

\* C11: a malformed output line is a fatal parse error (ValueError) of
\* get_commit_stats: a non-blank line with fewer than four "|"-separated
\* fields, or one whose date field does not parse as YYYY-MM-DD, makes the
\* call raise it, and no Commit with an unparseable date is in a returned
\* list or in the commits main collects.
C11_MalformedLineFatal ==
  /\ (GcsCalled /\ gcsIn.returncode = 0
        /\ \E k \in 1 .. Len(GcsLines) : Malformed(GcsLines[k])) =>
       gcsRes.exc = "ValueError"
  /\ gcsRes.exc = "none" =>
       \A k \in 1 .. Len(gcsRes.val) : Strptime(gcsRes.val[k].date).exc = "none"
  /\ \A k \in 1 .. Len(mainCommits) : Strptime(mainCommits[k].date).exc = "none"

(***************************************************************************)
(* Properties of the exports and plots                                     *)
(***************************************************************************)
IsExport == outCall.op \in {"export_data", "exporters"}

IsPlot == outCall.op \in {"plotters", "git_report"}

\* C8: exporting an empty commit list as csv writes no file and raises no
\* error, and exporting it as json writes a file holding an empty sequence,
\* at every export entry point (export_data and the exporters table).
C8_EmptyExport ==
  (IsExport /\ outCall.commits = << >>) =>
    /\ outCall.kind = Str_csv => (outRes.exc = "none" /\ files = << >>)
    /\ outCall.kind = Str_json =>
         /\ outRes.exc = "none"
         /\ Len(files) = 1
         /\ files[1][2].kind = "json" /\ files[1][2].rows = << >>

\* C9: plot_commits and plot_summary fail with the empty-dataset error on
\* an empty commit list: neither returns normally nor writes an image.
C9_EmptyPlotRaises ==
  (IsPlot /\ outCall.commits = << >>) =>
    /\ outRes.exc = "ValueError"
    /\ files = << >>

(***************************************************************************)
(* Properties of plot_commits                                              *)
(***************************************************************************)
\* The fill loop of plot_commits has run over the whole list.
PlotFilled == plotPc = "saved" \/ (plotPc = "fill" /\ plotIdx > Len(plotIn.commits))

\* The period key of the i-th commit given to plot_commits.
PlotKey(i) == make_period_key(plotIn.commits[i], plotIn.period).val

\* The commits of the list with key k, and those of them of repository r.
PlotCommitsIn(k) == {i \in 1 .. Len(plotIn.commits) : PlotKey(i) = k}

PlotCommitsOf(k, r) == {i \in PlotCommitsIn(k) : plotIn.commits[i].repo_name = r}

\* data[k].get(r, 0)
PlotCount(k, r) ==
  LET counts == DictGet(plotData, k)
  IN  IF DictHas(counts, r) THEN DictGet(counts, r) ELSE 0

RECURSIVE SumSeq(_)
SumSeq(q) == IF q = << >> THEN 0 ELSE Head(q) + SumSeq(Tail(q))

\* C12: after the skeleton and the fill loop of plot_commits, for every
\* period key k of data and every repository r of the repository set,
\* data[k].get(r, 0) is the number of commits with key k and repo_name r
\* (0 where data[k] has no entry for r); the counts of one period sum to
\* the number of commits of that period, and all heights drawn sum to
\* len(commits).
C12_PlotCounts ==
  PlotFilled =>
    LET repos == SortedSet(plotRepos)
        keys == SortedKeys(plotData)
        total(k) == SumSeq([j \in 1 .. Len(repos) |-> PlotCount(k, repos[j])])
    IN  /\ \A k \in DictKeys(plotData) :
             /\ \A r \in plotRepos : PlotCount(k, r) = Cardinality(PlotCommitsOf(k, r))
             /\ total(k) = Cardinality(PlotCommitsIn(k))
        /\ SumSeq([j \in 1 .. Len(keys) |-> total(keys[j])]) = Len(plotIn.commits)
        /\ plotPc = "saved" =>
             /\ Len(plotOut.heights) = Len(plotOut.repos)
             /\ \A j \in 1 .. Len(plotOut.repos) :
                  /\ Len(plotOut.heights[j]) = Len(plotOut.periods)
                  /\ \A i \in 1 .. Len(plotOut.periods) :
                       plotOut.heights[j][i] =
                         Cardinality(PlotCommitsOf(plotOut.periods[i], plotOut.repos[j]))
             /\ SumSeq([j \in 1 .. Len(plotOut.heights) |-> SumSeq(plotOut.heights[j])])
                  = Len(plotIn.commits)

\* A chart was saved with a period of no commits, a period with two commits
\* of one repository and none of the other, and both repositories drawn.
C12_Witness ==
  /\ plotPc = "saved"
  /\ plotRepos = {Str_RepoA, Str_RepoB}
  /\ \E k \in DictKeys(plotData) : DictGet(plotData, k) = << >>
  /\ \E k \in DictKeys(plotData) :
       /\ PlotCount(k, Str_RepoA) = 2
       /\ ~DictHas(DictGet(plotData, k), Str_RepoB)

(***************************************************************************)
(* Properties of the order of period keys                                  *)
(***************************************************************************)
OrdCalled == ordIn.impl # "none"

\* C13: sorting period keys as strings is chronological: for dates
\* d1 <= d2 the DAY keys and the MONTH keys satisfy key(d1) <= key(d2) as
\* strings, and so do the WEEK keys whenever d1 and d2 are in the same ISO
\* year; sorted() then puts the key of d1 first and that of d2 last.
C13_KeysSortChronologically ==
  (OrdCalled /\ DateLeq(ordIn.d1, ordIn.d2)
     /\ (ordIn.period = "WEEK" =>
           IsoCalendar(ordIn.d1).year = IsoCalendar(ordIn.d2).year)) =>
    /\ StrLeq(ordOut.k1, ordOut.k2)
    /\ ordOut.sorted[1] = ordOut.k1
    /\ ordOut.sorted[Len(ordOut.sorted)] = ordOut.k2

\* WEEK keys of ISO weeks 9 and 10 of one ISO year were sorted.
C13_Witness ==
  /\ OrdCalled /\ ordIn.period = "WEEK"
  /\ IsoCalendar(ordIn.d1).year = IsoCalendar(ordIn.d2).year
  /\ IsoCalendar(ordIn.d1).week = 9
  /\ IsoCalendar(ordIn.d2).week = 10
  /\ ordOut.sorted = <<ordOut.k1, ordOut.k2>>

(***************************************************************************)
(* Properties of the series plot_commits draws                             *)
(***************************************************************************)
\* The date of the i-th commit given to plot_commits, as a day number.
PlotDay(i) == ToOrdinal(Strptime(plotIn.commits[i].date).val)

\* The list given to plot_commits is in ascending order of date.
PlotSorted ==
  /\ \A i \in 1 .. Len(plotIn.commits) : Strptime(plotIn.commits[i].date).exc = "none"
  /\ \A i \in 1 .. Len(plotIn.commits) - 1 : PlotDay(i) <= PlotDay(i + 1)

\* The keys of all days from the first commit's to the last commit's.
PlotSpanKeys ==
  {format_period(FromOrdinal(n), plotIn.period).val :
     n \in PlotDay(1) .. PlotDay(Len(plotIn.commits))}

\* C14: on a list sorted ascending by date, as main sorts it before the
\* call, the series plot_commits draws after skeleton and fill has no
\* gaps: for DAY, WEEK and MONTH its keys are exactly the periods from that
\* of the earliest commit to that of the latest, periods without commits
\* included, and the last period also when the cursor of the skeleton
\* stepped over the last date.
C14_SeriesHasNoGaps ==
  plotPc = "saved" =>
    /\ plotIn.caller = "main" => PlotSorted
    /\ PlotSorted =>
         /\ DictKeys(plotData) = PlotSpanKeys
         /\ {plotOut.periods[i] : i \in 1 .. Len(plotOut.periods)} = PlotSpanKeys
         /\ Len(plotOut.periods) = Cardinality(PlotSpanKeys)
         /\ \A i \in 1 .. Len(plotOut.periods) - 1 :
              StrLess(plotOut.periods[i], plotOut.periods[i + 1])

\* main sorted the list; the monthly series drawn for it has a month of no
\* commits and a last month that the skeleton, stepping from January 31st,
\* did not hold.
C14_Witness ==
  /\ plotPc = "saved" /\ plotIn.caller = "main" /\ plotIn.period = "MONTH"
  /\ PlotSorted
  /\ plotIn.commits[1].date = StrfDay(D20240131)
  /\ plotIn.commits[Len(plotIn.commits)].date = StrfDay(D20240301)
  /\ Len(plotIn.commits) = 3 /\ plotIn.commits[2].date = StrfDay(D20240131)
  /\ \E k \in DictKeys(plotData) : DictGet(plotData, k) = << >>
  /\ DictKeys(plotData) \ DictKeys(genDates) # {}

(***************************************************************************)
(* Termination of generate_dates                                           *)
(***************************************************************************)
GenStartDay == ToOrdinal(Strptime(genIn.start.date).val)

GenEndDay == ToOrdinal(Strptime(genIn.end.date).val)

\* C15: generate_dates terminates for every start and end and each of DAY,
\* WEEK and MONTH with interval >= 1: every iteration moves the cursor to a
\* strictly later date (by days, weeks, or calendar months with the day
\* clamped), from inside the span to at most once beyond end.date, and the
\* call returns; with start.date > end.date the body never runs and the
\* skeleton returned is empty.
C15_GenerateDatesTerminates ==
  /\ [][(genPc = "loop" /\ genPc' = "loop") =>
          /\ ToOrdinal(genCur') > ToOrdinal(genCur)
          /\ ToOrdinal(genCur) <= GenEndDay]_vars
  /\ (genPc = "loop" /\ genIn.step \in Periods) ~> (genPc = "returned")
  /\ []((genPc \in {"loop", "returned"} /\ genIn.step \in Periods /\ GenStartDay > GenEndDay) =>
          genDates = << >>)

\* A MONTH skeleton of two months was returned after the cursor, started
\* on the 30th or 31st, was clamped to the end of February.
C15_Witness ==
  /\ genPc = "returned" /\ genIn.step = "MONTH"
  /\ Len(genDates) = 2
  /\ genCur.day = 29
  /\ Strptime(genIn.start.date).val.day > 29

=============================================================================
